---- MODULE Spec2Model ----
(***************************************************************************)
(* librequests (src/requests.c): a libcurl wrapper.  The model holds the   *)
(* request context (REQ), the option state of the easy handle (CURL), the  *)
(* position and locals of the running executor, the request the engine is  *)
(* serving, and the last direct call of url_encode.                        *)
(*                                                                         *)
(* Memory is modelled as the C abstract machine sees it: an allocation is  *)
(* a sequence of bytes of its capacity, bytes that were never written hold *)
(* an arbitrary value, a write past a capacity and a read through a freed  *)
(* pointer are undefined and the model branches over what a build can do.  *)
(* assert() is modelled as compiled in (no NDEBUG): a failed assertion     *)
(* aborts the process.                                                     *)
(***************************************************************************)
EXTENDS Integers, Sequences, FiniteSets, TLC

VARIABLES req, curl, pc, call, issued, received, ue

vars == <<req, curl, pc, call, issued, received, ue>>

\* ------------------------------------------------------------------ bounds

\* longest chunk the engine hands to callback in one invocation
MaxChunk == 2
\* largest accumulated body (req.size) the model follows
MaxBody == 3
\* longest key or value given to url_encode
MaxStrLen == 1
\* largest data_size given to url_encode
MaxData == 4
\* longest C string found in memory that was never written
MaxJunk == 1

\* ----------------------------------------------------------------- helpers

Min(a, b) == IF a < b THEN a ELSE b

Take(s, n) == SubSeq(s, 1, Min(n, Len(s)))

SeqsUpTo(S, n) == UNION {[1..k -> S] : k \in 0..n}

\* ------------------------------------------------------------------ inputs

\* response bytes: 0 is the zero byte, the others are text bytes
Bytes == {0, 1}

Chunks == SeqsUpTo(Bytes, MaxChunk)

\* characters of keys and values; "a" is unreserved, "&" is reserved
Chars == {"a", "&"}

Strs == SeqsUpTo(Chars, MaxStrLen)

\* the char ** arrays a caller passes to url_encode
DataInputs == SeqsUpTo(Strs, MaxData)

EvenDataInputs == {d \in DataInputs : Len(d) % 2 = 0}

\* what strlen reads out of stack memory that was never written
JunkStrs == SeqsUpTo(Chars, MaxJunk)

\* what an out-of-bounds write of url_encode leads to
UBOutcomes == {"intact", "clobbered", "crash"}

\* what a read through a freed pointer leads to: bytes of no defined value, or
\* a fault
FreedReads == {"read", "crash"}

NullUrl == "<NULL>"

Urls == {NullUrl, "", "http://host/"}

Null == [null |-> TRUE, v |-> <<>>]

Ptr(v) == [null |-> FALSE, v |-> v]

\* data arguments of the executors (NULL, or an array with its data_size)
PtData == {Null} \cup {Ptr(d) : d \in {<<>>, << <<"a">> >>, << <<"a">>, <<"&">> >>}}

\* headers arguments of the executors (NULL, or an array with its headers_size)
PtHeaders == {Null} \cup {Ptr(h) : h \in {<<>>, <<"X-A: 1", "X-B: 2">>}}

PutFlags == {0, 1, 2}

Codes == {0, 200}

ContentLength0 == "Content-Length: 0"

\* ------------------------------------------------------------- url_encode

RECURSIVE SumLen(_)
SumLen(data) == IF data = <<>> THEN 0 ELSE Len(Head(data)) + SumLen(Tail(data))

\* lines 104-110: total_size is the sum of the strlen of every element
TotalSize(data) == SumLen(data)

\* line 119, i is the C index of the key
Offset(i) == IF i = 0 THEN 2 ELSE 3

\* line 120
TermSize(i, key, val) == Len(key) + Len(val) + Offset(i)

\* the formats of lines 123 and 125
TermFmt(i, key, val) ==
    IF i = 0 THEN key \o <<"=">> \o val ELSE <<"&">> \o key \o <<"=">> \o val

\* snprintf(buf, size, ...): the string left in buf, at most size-1 characters
Snprintf(size, s) == IF size = 0 THEN <<>> ELSE Take(s, size - 1)

\* lines 116-127. st.str is the C string in `encoded`, st.writeEnd the number of
\* bytes of `encoded` written so far (the highest index written, plus one),
\* st.termShort whether some `term` was too small for its formatted pair.
RECURSIVE Assemble(_, _, _)
Assemble(data, i, st) ==
    IF i >= Len(data) THEN st
    ELSE LET key  == data[i + 1]
             val  == data[i + 2]
             tsz  == TermSize(i, key, val)
             fmt  == TermFmt(i, key, val)
             term == Snprintf(tsz, fmt)
             str  == st.str \o term
         IN  Assemble(data, i + 2,
                      [str       |-> str,
                       writeEnd  |-> Len(str) + 1,
                       termShort |-> st.termShort \/ Len(fmt) + 1 > tsz])

\* curl_easy_escape: unreserved characters are kept, the others become %XX
EscapeChar(c) ==
    CASE c = "a" -> <<"a">>
      [] c = "=" -> <<"%", "3", "D">>
      [] c = "&" -> <<"%", "2", "6">>
      [] OTHER   -> <<"%", "?", "?">>

RECURSIVE Escape(_)
Escape(s) == IF s = <<>> THEN <<>> ELSE EscapeChar(Head(s)) \o Escape(Tail(s))

\* url_encode, lines 100-132, on an even-length array. `junk` is the C string
\* that stale stack memory holds where `encoded` is placed, `ub` what the build
\* does with bytes written past the end of `encoded`.
UrlEncode(data, junk, ub) ==
    LET total    == TotalSize(data)
        \* line 113: snprintf(encoded, total_size, "%s", "") writes the
        \* terminator only when total_size > 0
        start    == IF total > 0 THEN <<>> ELSE junk
        fin      == Assemble(data, 0, [str       |-> start,
                                       writeEnd  |-> IF total > 0 THEN 1 ELSE 0,
                                       termShort |-> FALSE])
        overflow == fin.writeEnd > total
        uninit   == total = 0
        crashed  == overflow /\ ub = "crash"
        assembled ==
            IF crashed THEN <<>>
            ELSE IF overflow /\ ub = "clobbered" THEN Take(fin.str, total) \o junk
            ELSE fin.str
    IN  [ran       |-> TRUE,
         data      |-> data,
         total     |-> total,
         writeEnd  |-> fin.writeEnd,
         overflow  |-> overflow,
         termShort |-> fin.termShort,
         uninit    |-> uninit,
         crashed   |-> crashed,
         assembled |-> assembled,
         escaped   |-> Escape(assembled)]

NoEncode ==
    [ran |-> FALSE, data |-> <<>>, total |-> 0, writeEnd |-> 0, overflow |-> FALSE,
     termShort |-> FALSE, uninit |-> FALSE, crashed |-> FALSE,
     assembled |-> <<>>, escaped |-> <<>>]

\* the (junk, ub) pairs that differ in effect for this input
EncodeEnv(data) ==
    {e \in JunkStrs \X UBOutcomes :
        /\ (TotalSize(data) > 0 /\ e[2] # "clobbered") => e[1] = <<>>
        /\ Len(data) = 0 => e[2] = "intact"}

\* ---------------------------------------------------------- request context

\* strlen: the number of bytes before the first zero byte
RECURSIVE Strlen(_)
Strlen(mem) == IF mem = <<>> \/ Head(mem) = 0 THEN 0 ELSE 1 + Strlen(Tail(mem))

\* realloc(p, cap): the old bytes are kept, the added bytes hold `fill`
Realloc(mem, cap, fill) ==
    IF cap <= Len(mem) THEN Take(mem, cap) ELSE mem \o Take(fill, cap - Len(mem))

\* strndup(content, n): the bytes of content before its first zero byte, at most n
Strndup(content, n) == Take(content, Min(n, Strlen(content)))

\* strcat(dst, src): src and a terminator are written at the first zero byte of dst
Strcat(mem, s) ==
    LET pos == Strlen(mem)
    IN  [i \in 1..Len(mem) |->
            IF i <= pos THEN mem[i]
            ELSE IF i <= pos + Len(s) THEN s[i - pos]
            ELSE IF i = pos + Len(s) + 1 THEN 0
            ELSE mem[i]]

\* requests_init, lines 34-37: text = calloc(1, 1) is one zero byte
ReqInit(url) == [code |-> 0, url |-> url, text |-> <<0>>, size |-> 0]

\* callback, lines 57-73. `fill` is what the bytes added by realloc hold.
Callback(r, content, fill) ==
    LET real_size    == Len(content)
        grown        == Realloc(r.text, r.size + real_size + 1, fill)
        responsetext == Strndup(content, real_size)
    IN  [r EXCEPT !.text = Strcat(grown, responsetext),
                  !.size = r.size + real_size]

\* ------------------------------------------------------------- easy handle

\* curl_easy_init: a handle with no option set. postfields and httpheader.ptr
\* say what the stored pointer refers to: "null", "live" memory or "freed" memory.
CurlInit ==
    [url           |-> "<unset>",
     writefunction |-> "default",
     writedata     |-> FALSE,
     postfields    |-> "null",
     httpheader    |-> [ptr |-> "null", list |-> <<>>],
     customrequest |-> "none",
     httpreq       |-> "GET",
     useragent     |-> FALSE]

\* common_opt, lines 226-231
CommonOpt(c, r) ==
    [c EXCEPT !.url = r.url, !.writefunction = "callback", !.writedata = TRUE]

\* curl_easy_setopt(curl, CURLOPT_POSTFIELDS, encoded), line 185: the pointer is
\* stored, not the string, and the handle switches to POST
SetPostfields(c) == [c EXCEPT !.postfields = "live", !.httpreq = "POST"]

\* curl_easy_setopt(curl, CURLOPT_HTTPHEADER, slist), lines 191 and 200: the
\* pointer is stored, not the list
SetHttpheader(c, slist) ==
    [c EXCEPT !.httpheader = [ptr  |-> IF slist = <<>> THEN "null" ELSE "live",
                              list |-> slist]]

\* lines 204-210
SetMethod(c, put_flag) ==
    IF put_flag # 0
    THEN [c EXCEPT !.customrequest = "PUT", !.useragent = TRUE]
    ELSE [c EXCEPT !.httpreq = "POST", !.useragent = TRUE]

\* curl_easy_perform finds a usable URL
PerformOk(c) == c.url \notin {NullUrl, "", "<unset>"}

\* curl_easy_perform reads the request body through the POSTFIELDS pointer
ReadsBody(c) == c.httpreq = "POST" /\ c.postfields # "null"

\* curl_easy_perform reads through a pointer whose memory was freed
ReadsFreed(c) ==
    /\ PerformOk(c)
    /\ \/ c.httpheader.ptr = "freed"
       \/ ReadsBody(c) /\ c.postfields = "freed"

\* The request curl_easy_perform builds from the options of the handle
\* (lines 88 and 211). enc is the string at a live POSTFIELDS pointer. What is
\* read through a freed pointer has no defined value: body and headers say
\* "freed" for it.
EngineRequest(c, enc) ==
    [ok        |-> PerformOk(c),
     method    |-> IF c.customrequest # "none" THEN c.customrequest ELSE c.httpreq,
     body      |-> IF ~ReadsBody(c) THEN [kind |-> "none", val |-> <<>>]
                   ELSE IF c.postfields = "freed" THEN [kind |-> "freed", val |-> <<>>]
                   ELSE [kind |-> "fields", val |-> enc],
     headers   |-> IF c.httpheader.ptr = "null" THEN [kind |-> "none", list |-> <<>>]
                   ELSE IF c.httpheader.ptr = "freed" THEN [kind |-> "freed", list |-> <<>>]
                   ELSE [kind |-> "list", list |-> c.httpheader.list],
     useragent |-> c.useragent,
     freedRead |-> ReadsFreed(c)]

NoRequest ==
    [ok |-> FALSE, method |-> "none", body |-> [kind |-> "none", val |-> <<>>],
     headers |-> [kind |-> "none", list |-> <<>>], useragent |-> FALSE,
     freedRead |-> FALSE]

\* the outcomes of curl_easy_perform's reads that differ in effect
PerformEnv(c) == IF ReadsFreed(c) THEN FreedReads ELSE {"read"}

\* --------------------------------------------------------------- executors

\* The executor call in progress: its arguments, whether an assertion stopped
\* it, the number of curl_easy_setopt calls it has made, whether it has called
\* curl_easy_perform, and its locals `encoded` and `slist`.
NoCall ==
    [op |-> "none", data |-> Null, headers |-> Null, put_flag |-> 0,
     aborted |-> FALSE, setopts |-> 0, performed |-> FALSE,
     encoded |-> Null, slist |-> <<>>, headerSet |-> FALSE]

\* line 81: assert(req->url != NULL)
GetUrlUnchecked(r) == TRUE

GetUrlAsserted(r) == r.url # NullUrl

\* lines 177-178
PutFlagAsserted(put_flag) == put_flag = 0 \/ put_flag = 1

\* line 182
DataSizeAsserted(data) == Len(data.v) % 2 = 0

\* lines 186-199: the list `slist` that requests_pt builds
PtSlistHeadersOnly(data, headers) ==
    IF headers.null
    THEN (IF data.null THEN <<ContentLength0>> ELSE <<>>)
    ELSE headers.v

PtSlist(data, headers) ==
    (IF data.null THEN <<ContentLength0>> ELSE <<>>)
        \o (IF headers.null THEN <<>> ELSE headers.v)

\* lines 189-201: whether requests_pt hands slist to CURLOPT_HTTPHEADER
PtHeaderSet(data, headers) == data.null \/ ~headers.null

\* lines 185, 191, 200, 203, 207/209, 210: the curl_easy_setopt calls of requests_pt
PtSetopts(data, headers) ==
    (IF ~data.null \/ headers.null THEN 1 ELSE 0)
        + (IF ~headers.null THEN 1 ELSE 0) + 5

\* lines 180-210: the options of the handle when requests_pt calls curl_easy_perform
PtOptions(c, r, data, headers, put_flag) ==
    LET c1 == IF ~data.null THEN SetPostfields(c) ELSE c
        c2 == IF PtHeaderSet(data, headers)
              THEN SetHttpheader(c1, PtSlist(data, headers)) ELSE c1
    IN  SetMethod(CommonOpt(c2, r), put_flag)

\* lines 216-219: curl_free(encoded) and curl_slist_free_all(slist) leave the
\* pointers that the handle stored pointing at freed memory
PtRelease(c, k) ==
    [c EXCEPT !.postfields = IF ~k.encoded.null THEN "freed" ELSE @,
              !.httpheader = IF k.slist # <<>> /\ k.headerSet
                             THEN [ptr |-> "freed", list |-> <<>>] ELSE @]

\* ----------------------------------------------------------------- actions

\* requests_init, lines 32-42, for a fresh REQ and a fresh handle
Init ==
    /\ \E url \in Urls : req = ReqInit(url)
    /\ curl = CurlInit
    /\ pc = "idle"
    /\ call = NoCall
    /\ issued = NoRequest
    /\ received = <<>>
    /\ ue = NoEncode

\* requests_init after requests_close: the caller opens the next session
requests_init ==
    /\ pc = "closed"
    /\ \E url \in Urls : req' = ReqInit(url)
    /\ curl' = CurlInit
    /\ pc' = "idle"
    /\ received' = <<>>
    /\ UNCHANGED <<call, issued, ue>>

\* requests_close, lines 47-51: the handle and the body are released
requests_close ==
    /\ pc = "idle"
    /\ pc' = "closed"
    /\ UNCHANGED <<req, curl, call, issued, received, ue>>

\* curl_easy_perform is entered with the options c: the engine builds the
\* request, or the process dies on a read of freed memory
Perform(c, enc, k) ==
    \E g \in PerformEnv(c) :
        /\ curl' = c
        /\ call' = [k EXCEPT !.performed = TRUE]
        /\ issued' = EngineRequest(c, enc)
        /\ pc' = IF g = "crash" THEN "crashed" ELSE "perform"

\* an assertion fails: the process aborts with nothing else done
Abort(k) ==
    /\ pc' = "aborted"
    /\ call' = [k EXCEPT !.aborted = TRUE]
    /\ UNCHANGED <<curl, issued>>

\* requests_get, lines 79-88, up to the point where the engine runs
requests_get ==
    /\ pc = "idle"
    /\ LET k == [NoCall EXCEPT !.op = "get"]
       IN  IF ~GetUrlAsserted(req)
           THEN Abort(k)
           ELSE Perform(CommonOpt(curl, req), <<>>, [k EXCEPT !.setopts = 5])
    /\ UNCHANGED <<req, received, ue>>

\* requests_pt, lines 169-211, up to the point where the engine runs
RequestsPt(data, headers, put_flag) ==
    /\ pc = "idle"
    /\ LET k == [NoCall EXCEPT !.op = "pt", !.data = data, !.headers = headers,
                               !.put_flag = put_flag]
       IN  IF ~PutFlagAsserted(put_flag) \/ (~data.null /\ ~DataSizeAsserted(data))
           THEN Abort(k)
           ELSE \E e \in (IF data.null THEN {<< <<>>, "intact" >>} ELSE EncodeEnv(data.v)) :
                    LET enc == IF data.null THEN NoEncode ELSE UrlEncode(data.v, e[1], e[2])
                        k1  == [k EXCEPT !.encoded = IF data.null THEN Null
                                                     ELSE Ptr(enc.escaped),
                                         !.slist = PtSlist(data, headers),
                                         !.headerSet = PtHeaderSet(data, headers),
                                         !.setopts = PtSetopts(data, headers)]
                    IN  IF enc.crashed
                        THEN /\ pc' = "crashed"
                             /\ call' = k
                             /\ UNCHANGED <<curl, issued>>
                        ELSE Perform(PtOptions(curl, req, data, headers, put_flag),
                                     enc.escaped, k1)
    /\ UNCHANGED <<req, received, ue>>

\* lines 134-137
requests_post == \E data \in PtData : RequestsPt(data, Null, 0)

\* lines 139-142
requests_put == \E data \in PtData : RequestsPt(data, Null, 1)

\* lines 144-148
requests_post_headers ==
    \E data \in PtData, headers \in PtHeaders \ {Null} : RequestsPt(data, headers, 0)

\* lines 150-154
requests_put_headers ==
    \E data \in PtData, headers \in PtHeaders \ {Null} : RequestsPt(data, headers, 1)

\* requests_pt called directly with a flag that no wrapper passes
requests_pt ==
    \E data \in PtData, headers \in PtHeaders, put_flag \in PutFlags \ {0, 1} :
        RequestsPt(data, headers, put_flag)

\* the engine, inside curl_easy_perform, hands a chunk of the response to callback
callback ==
    /\ pc = "perform"
    /\ issued.ok
    /\ \E content \in Chunks :
        /\ req.size + Len(content) <= MaxBody
        /\ \E fill \in [1..Len(content) -> Bytes] :
              req' = Callback(req, content, fill)
        /\ received' = received \o content
    /\ UNCHANGED <<curl, pc, call, issued, ue>>

\* curl_easy_perform returns: lines 89-91 of requests_get, lines 212-220 of
\* requests_pt. The executor's locals and the request are gone.
Return ==
    /\ pc = "perform"
    /\ \E code \in (IF issued.ok THEN Codes ELSE {0}) :
          req' = [req EXCEPT !.code = code]
    /\ curl' = IF call.op = "pt" THEN PtRelease(curl, call) ELSE curl
    /\ pc' = "idle"
    /\ call' = NoCall
    /\ issued' = NoRequest
    /\ UNCHANGED <<received, ue>>

Next ==
    \/ requests_init
    \/ requests_close
    \/ requests_get
    \/ requests_post
    \/ requests_put
    \/ requests_post_headers
    \/ requests_put_headers
    \/ requests_pt
    \/ callback
    \/ Return

Spec == Init /\ [][Next]_vars

\* url_encode, lines 100-132, called directly on an even-length array
url_encode ==
    /\ pc = "idle"
    /\ \E data \in EvenDataInputs :
          \E e \in EncodeEnv(data) : ue' = UrlEncode(data, e[1], e[2])
    /\ UNCHANGED <<req, curl, pc, call, issued, received>>

NextEnc == url_encode

SpecEnc == Init /\ [][NextEnc]_vars

\* ------------------------------------------------------------------ claims

\* the context is allocated and an executor is idle or inside curl_easy_perform
Observable == pc \in {"idle", "perform"}

\* C1: after any sequence of callback invocations on a context made by
\* requests_init, the body holds the chunks concatenated byte for byte and size
\* is the sum of the chunk lengths.
C1_BodyIsConcatenation ==
    Observable => /\ req.size = Len(received)
                  /\ Take(req.text, req.size) = received

\* C2 as stated: requests_pt hands "Content-Length: 0" to the engine only when
\* data is NULL and headers is NULL; with data NULL and custom headers the list
\* handed over is exactly the caller's headers.
C2_ContentLengthOnlyWithoutHeaders ==
    (pc = "perform" /\ call.op = "pt") =>
        /\ (\E i \in 1..Len(curl.httpheader.list) :
                curl.httpheader.list[i] = ContentLength0)
               => (call.data.null /\ call.headers.null)
        /\ (call.data.null /\ ~call.headers.null)
               => curl.httpheader.list = call.headers.v

\* C2 amended: whenever data is NULL the list handed to the engine is
\* "Content-Length: 0" followed by the caller's headers in order (none when
\* headers is NULL); with data and headers given it is exactly the caller's
\* headers.
C2_ContentLengthWheneverNoData ==
    (pc = "perform" /\ call.op = "pt") =>
        /\ call.data.null =>
              curl.httpheader =
                  [ptr  |-> "live",
                   list |-> <<ContentLength0>>
                              \o (IF call.headers.null THEN <<>> ELSE call.headers.v)]
        /\ (~call.data.null /\ ~call.headers.null) =>
              /\ curl.httpheader.list = call.headers.v
              /\ curl.httpheader.ptr # "freed"

C2_Witness ==
    /\ pc = "perform"
    /\ call.op = "pt"
    /\ call.data.null
    /\ ~call.headers.null
    /\ Len(call.headers.v) = 2
    /\ Len(curl.httpheader.list) = 3

\* The string "k0=v0&k1=v1...", pair by pair.
RECURSIVE Joined(_, _)
Joined(data, i) ==
    IF i >= Len(data) THEN <<>>
    ELSE (IF i = 0 THEN <<>> ELSE <<"&">>) \o data[i + 1] \o <<"=">> \o data[i + 2]
             \o Joined(data, i + 2)

\* C3: for every even-length array with at least one pair, the string that
\* url_encode has assembled when it calls the escaping routine is exactly
\* "k0=v0&k1=v1...".
C3_AssemblyIsJoined ==
    (ue.ran /\ Len(ue.data) >= 2) =>
        /\ ~ue.crashed
        /\ ue.assembled = Joined(ue.data, 0)

\* C4 as stated: requests_get on a context whose url is NULL or empty fails on
\* the assertion before any option is set and before any transfer.
C4_GetRejectsNullOrEmptyUrl ==
    (call.op = "get" /\ req.url \in {NullUrl, ""}) =>
        /\ call.aborted
        /\ call.setopts = 0
        /\ ~call.performed

\* C4 amended: requests_get on a context whose url is NULL fails on the
\* assertion before any option is set and before curl_easy_perform is called;
\* an empty url passes the assertion, the options are set and
\* curl_easy_perform is called.
C4_GetRejectsNullUrlOnly ==
    /\ (call.op = "get" /\ req.url = NullUrl) =>
          /\ pc = "aborted"
          /\ call.aborted
          /\ call.setopts = 0
          /\ ~call.performed
    /\ (call.op = "get" /\ req.url = "") =>
          /\ pc # "aborted"
          /\ ~call.aborted
          /\ call.setopts > 0
          /\ call.performed
          /\ curl.url = ""

C4_Witness ==
    /\ call.op = "get"
    /\ req.url = NullUrl
    /\ pc = "aborted"

\* C5: url_encode with data_size 0 measures and escapes a defined, empty string:
\* it returns the empty string whatever memory held before.
C5_EmptyDataEncodesEmpty ==
    (ue.ran /\ ue.data = <<>>) =>
        /\ ue.assembled = <<>>
        /\ ue.escaped = <<>>

\* C6: after requests_init and after every callback invocation the body buffer
\* has room for size + 1 bytes and the byte at index size is the terminator.
C6_BodyTerminated ==
    Observable => /\ Len(req.text) >= req.size + 1
                  /\ req.text[req.size + 1] = 0

\* C7: every executor fails fast on a NULL url: no option is set and
\* curl_easy_perform is not called, for POST and PUT as for GET.
C7_ExecutorsRejectNullUrl ==
    (call.op # "none" /\ pc \in {"perform", "aborted"} /\ req.url = NullUrl) =>
        /\ call.aborted
        /\ call.setopts = 0
        /\ ~call.performed

\* C8: the request that requests_get issues is a GET with no body and no
\* custom header list, whatever executor calls were made on the handle before.
C8_GetIssuesPlainGet ==
    (pc = "perform" /\ call.op = "get" /\ issued.ok) =>
        /\ issued.method = "GET"
        /\ issued.body.kind = "none"
        /\ issued.headers.kind = "none"

\* C9: in url_encode no write goes past the end of `encoded`, and every `term`
\* is large enough for its formatted pair.
C9_NoWritePastEncoded ==
    ue.ran => /\ ~ue.overflow
              /\ ue.writeEnd <= ue.total
              /\ ~ue.termShort

\* C10: when requests_pt has returned the handle holds no pointer to the
\* encoded body or the header list it released, and no later executor call
\* makes the engine read freed memory.
C10_NoDanglingOption ==
    /\ pc = "idle" => /\ curl.postfields # "freed"
                      /\ curl.httpheader.ptr # "freed"
    /\ ~issued.freedRead

====
